---- MODULE Spec2Model ----
(***************************************************************************)
(* Model of backend/apiplanner.py: the itinerary tool, the tool-call       *)
(* dispatcher and the POST /generate-itinerary handler.                    *)
(*                                                                         *)
(* Text is a sequence of characters, each a string; a run of letters that  *)
(* no operation splits ("destination", "Pokhara") is written as one        *)
(* element.  An error message is a sequence of strings too.  A parsed JSON *)
(* value is represented by its canonical text: the tokens of the document  *)
(* without the insignificant whitespace.                                   *)
(***************************************************************************)
EXTENDS Integers, Sequences, FiniteSets, TLC

\* Bounds of the model.
MaxPieces == 2      \* a raw model text is built from at most MaxPieces pieces
MaxBatch == 2       \* a model response proposes at most MaxBatch tool calls

None == "None"      \* main_llm = None
LLM == "ChatGroq"   \* an initialized handle

----------------------------------------------------------------------------
\* str methods used by the code

WS == {" ", "\n"}

RECURSIVE LStrip(_)
LStrip(s) == IF s = <<>> THEN s
             ELSE IF Head(s) \in WS THEN LStrip(Tail(s)) ELSE s

RECURSIVE RStrip(_)
RStrip(s) == IF s = <<>> THEN s
             ELSE IF s[Len(s)] \in WS THEN RStrip(SubSeq(s, 1, Len(s) - 1)) ELSE s

\* str.strip()
strip(s) == RStrip(LStrip(s))

StartsWith(s, p) == Len(s) >= Len(p) /\ SubSeq(s, 1, Len(p)) = p

\* str.replace(old, ""): every non-overlapping occurrence, left to right
RECURSIVE replace(_, _)
replace(s, old) ==
    IF s = <<>> THEN <<>>
    ELSE IF StartsWith(s, old) THEN replace(SubSeq(s, Len(old) + 1, Len(s)), old)
    ELSE <<Head(s)>> \o replace(Tail(s), old)

\* the backquote character (written out: the lexer takes no backquote in a string)
BQ == "backquote"
FENCE_JSON == <<BQ, BQ, BQ, "j", "s", "o", "n">>
FENCE == <<BQ, BQ, BQ>>
TOOL_USE == <<"<", "t", "o", "o", "l", "-", "u", "s", "e", ">",
              "<", "/", "t", "o", "o", "l", "-", "u", "s", "e", ">">>

----------------------------------------------------------------------------
\* json.loads on a str, for the JSON subset {digits of 1, strings, arrays,
\* objects}.  A parse yields [ok, i, c]: success, the index after the value,
\* the canonical text of the value.

ParseFail == [ok |-> FALSE, i |-> 0, c |-> <<>>]

RECURSIVE SkipWs(_, _)
SkipWs(s, i) == IF i <= Len(s) /\ s[i] \in WS THEN SkipWs(s, i + 1) ELSE i

\* index of the quote closing a string whose content starts at i, 0 if none;
\* a control character inside a string is an error (strict mode)
RECURSIVE ScanString(_, _)
ScanString(s, i) ==
    IF i > Len(s) THEN 0
    ELSE IF s[i] = "\"" THEN i
    ELSE IF s[i] = "\n" THEN 0
    ELSE ScanString(s, i + 1)

RECURSIVE ScanNumber(_, _)
ScanNumber(s, i) == IF i <= Len(s) /\ s[i] = "1" THEN ScanNumber(s, i + 1) ELSE i

RECURSIVE ParseValue(_, _)
RECURSIVE ParseElems(_, _, _)
RECURSIVE ParseMembers(_, _, _)

Parsed(i, c) == [ok |-> TRUE, i |-> i, c |-> c]

\* a number, from its first digit at i to the index j after its last
NumberTo(s, i, j) == Parsed(j, SubSeq(s, i, j - 1))

\* a string, from its opening quote at i to its closing quote at j
StringTo(s, i, j) == IF j = 0 THEN ParseFail ELSE Parsed(j + 1, SubSeq(s, i, j))

\* after "[" (close = "]") or "{" (close = "}"), at the first non-blank j
Opened(s, j, close) ==
    IF j <= Len(s) /\ s[j] = close THEN Parsed(j + 1, <<(IF close = "]" THEN "[" ELSE "{"), close>>)
    ELSE IF close = "]" THEN ParseElems(s, j, <<"[">>)
    ELSE ParseMembers(s, j, <<"{">>)

ParseValue(s, i) ==
    IF i > Len(s) THEN ParseFail
    ELSE IF s[i] = "1" THEN NumberTo(s, i, ScanNumber(s, i))
    ELSE IF s[i] = "\"" THEN StringTo(s, i, ScanString(s, i + 1))
    ELSE IF s[i] = "[" THEN Opened(s, SkipWs(s, i + 1), "]")
    ELSE IF s[i] = "{" THEN Opened(s, SkipWs(s, i + 1), "}")
    ELSE ParseFail

\* after an element or a member, at the first non-blank j: the closing
\* bracket, or a comma and the next one
Separator(s, j, acc, close) ==
    IF j > Len(s) THEN ParseFail
    ELSE IF s[j] = close THEN Parsed(j + 1, acc \o <<close>>)
    ELSE IF s[j] = "," THEN
        IF close = "]" THEN ParseElems(s, SkipWs(s, j + 1), acc \o <<",">>)
        ELSE ParseMembers(s, SkipWs(s, j + 1), acc \o <<",">>)
    ELSE ParseFail

\* v: the parse of an element or of a member's value
AfterValue(s, acc, v, close) ==
    IF ~v.ok THEN ParseFail ELSE Separator(s, SkipWs(s, v.i), acc \o v.c, close)

ParseElems(s, i, acc) == AfterValue(s, acc, ParseValue(s, i), "]")

\* a member whose key runs from the quote at i to the quote at k; j: the
\* first non-blank after the key
MemberAt(s, i, k, j, acc) ==
    IF k = 0 THEN ParseFail
    ELSE IF j > Len(s) \/ s[j] # ":" THEN ParseFail
    ELSE AfterValue(s, acc \o SubSeq(s, i, k) \o <<":">>, ParseValue(s, SkipWs(s, j + 1)), "}")

KeyTo(s, i, k, acc) == MemberAt(s, i, k, SkipWs(s, k + 1), acc)

ParseMembers(s, i, acc) ==
    IF i > Len(s) \/ s[i] # "\"" THEN ParseFail
    ELSE KeyTo(s, i, ScanString(s, i + 1), acc)

\* the document is one value and blanks
Document(s, v) ==
    IF v.ok /\ SkipWs(s, v.i) > Len(s) THEN [ok |-> TRUE, val |-> v.c]
    ELSE [ok |-> FALSE, val |-> <<>>]

\* json.loads(s): [ok, val]; ~ok stands for json.JSONDecodeError
loads(s) == Document(s, ParseValue(s, SkipWs(s, 1)))

----------------------------------------------------------------------------
\* Module initialization of the handle, lines 21-35

PLACEHOLDER == "your_groq_api_key_here"
ApiKeys == {None, "", PLACEHOLDER, "gsk_live"}

\* ctor_raises: the ChatGroq constructor raises
init_main_llm(api_key, ctor_raises) ==
    IF api_key = None \/ api_key = "" \/ api_key = PLACEHOLDER THEN None
    ELSE IF ctor_raises THEN None
    ELSE LLM

----------------------------------------------------------------------------
\* The itinerary tool

\* What main_llm.invoke(prompt) does inside the tool: it raises, or returns a
\* response whose content is a text, or one whose content is not a str
\* (a list of content blocks), which has no strip().
ReplyRaise == [k |-> "raise", content |-> <<>>]
ReplyBlocks == [k |-> "blocks", content |-> <<>>]
ReplyText(t) == [k |-> "text", content |-> t]

EMPTY_MSG == <<"Empty response received from model.">>

\* the f-string of lines 41-77: the template around the destination
prompt(destination) == <<"Create an itinerary for ">> \o destination \o <<" including: ...">>

\* what the tool hands back: [kind, val]
ToolReturn(kind, val) == [kind |-> kind, val |-> val]

\* The body of the try block, lines 79-91, leaves [exc, ret]: exc = "" when
\* the block returns ret; otherwise the class of the exception it raises.

\* lines 85-90
json_str_of(content) ==
    strip(replace(replace(replace(content, FENCE_JSON), FENCE), TOOL_USE))

Raises(exc) == [exc |-> exc, ret |-> ToolReturn("none", <<>>)]
Returns(ret) == [exc |-> "", ret |-> ret]

\* line 91: return json.loads(json_str)
return_parsed(parsed) ==
    IF parsed.ok THEN Returns(ToolReturn("value", parsed.val)) ELSE Raises("JSONDecodeError")

\* generate_itinerary_try with the emptiness test moved after the cleanup
generate_itinerary_try_late_check(main_llm, reply) ==
    IF main_llm = None THEN Raises("AttributeError")
    ELSE IF reply.k = "raise" THEN Raises("LangChainException")
    ELSE IF reply.k = "blocks" THEN Raises("AttributeError")
    ELSE IF json_str_of(reply.content) = <<>> THEN Returns(ToolReturn("error", EMPTY_MSG))
    ELSE return_parsed(loads(json_str_of(reply.content)))

generate_itinerary_try(main_llm, reply) ==
    IF main_llm = None THEN Raises("AttributeError")
    ELSE IF reply.k = "raise" THEN Raises("LangChainException")
    ELSE IF reply.k = "blocks" THEN Raises("AttributeError")
    ELSE IF strip(reply.content) = <<>> THEN Returns(ToolReturn("error", EMPTY_MSG))
    ELSE return_parsed(loads(json_str_of(reply.content)))

\* except Exception as e: return {"error": str(e)}, lines 92-93; t is what
\* the try block did
generate_itinerary_except(t) ==
    IF t.exc = "" THEN t.ret ELSE ToolReturn("error", <<t.exc>>)

\* the same with "except json.JSONDecodeError" for "except Exception"
generate_itinerary_except_narrow(t) ==
    IF t.exc = "" THEN t.ret
    ELSE IF t.exc = "JSONDecodeError" THEN ToolReturn("error", <<t.exc>>)
    ELSE ToolReturn("raised", <<t.exc>>)

\* generate_itinerary with the narrow except clause
generate_itinerary_narrow_except(main_llm, destination, reply) ==
    generate_itinerary_except_narrow(generate_itinerary_try(main_llm, reply))

\* generate_itinerary(destination): what the call does, [kind, val]:
\*   kind "value": returns the parsed JSON value val
\*   kind "error": returns {"error": val}
\*   kind "raised": the call raises val
generate_itinerary(main_llm, destination, reply) ==
    generate_itinerary_except(generate_itinerary_try(main_llm, reply))

----------------------------------------------------------------------------
\* Raw model texts: concatenations of at most n pieces

OBJ_TEXT == <<"{", "\"", "e", "\"", ":", " ", "1", "}">>

Pieces == { FENCE_JSON, FENCE, TOOL_USE, <<BQ>>, <<" ">>, <<"\n">>,
            OBJ_TEXT, <<"{">>, <<"[", "1", " ", "]">> }

RECURSIVE Texts(_)
Texts(n) == IF n = 0 THEN {<<>>}
            ELSE Texts(n - 1) \cup {t \o p : t \in Texts(n - 1), p \in Pieces}

Replies == {ReplyRaise, ReplyBlocks} \cup {ReplyText(t) : t \in Texts(MaxPieces)}

Destinations == {<<>>, <<"Pokhara">>}

\* the replies scripted for the tool's model calls of one dispatch
DispatchReplies == { ReplyRaise, ReplyText(<<>>), ReplyText(FENCE_JSON \o <<"\n">> \o FENCE),
                     ReplyText(FENCE_JSON \o OBJ_TEXT \o FENCE), ReplyText(<<"{">>) }

\* the reply to the next model call; a call beyond the scripted replies fails
NextReply(replies) == IF replies = <<>> THEN ReplyRaise ELSE Head(replies)

----------------------------------------------------------------------------
\* The dispatcher

TOOL_NAME == "generate_itinerary"

\* tool_map, line 105: the names of the registered tools
tool_map == {TOOL_NAME}

\* One entry of additional_kwargs["tool_calls"]:
\*   hasName: tc["function"]["name"] can be read
\*   argt: "str" (arguments is the str args), "null" (arguments is not a str),
\*         "missing" (tc["function"] has no arguments)
TC(hasName, name, argt, args) ==
    [hasName |-> hasName, name |-> name, argt |-> argt, args |-> args]

\* the outcomes appended to results
OutcomeNoToolCalls == [status |-> "no_tool_calls"]
OutcomeNotFound(func_name) == [tool |-> func_name, status |-> "not_found"]
OutcomeInvalidJson(func_name) == [tool |-> func_name, status |-> "invalid_json"]
OutcomeError(func_name, msg) == [tool |-> func_name, error |-> msg]
\* OutcomeResult that also reports a status
OutcomeResult_with_status(func_name, args, tool_result) ==
    [tool |-> func_name, arguments |-> args, result |-> tool_result, status |-> "ok"]
OutcomeResult(func_name, args, tool_result) ==
    [tool |-> func_name, arguments |-> args, result |-> tool_result]

\* Validation of the tool input against the tool's schema (destination: str):
\* an object whose first member is "destination" with a string value.
DEST_PREFIX == <<"{", "\"", "destination", "\"", ":", "\"">>
SchemaOk(args) == StartsWith(args, DEST_PREFIX)
DestinationOf(args) == SubSeq(args, Len(DEST_PREFIX) + 1, ScanString(args, Len(DEST_PREFIX) + 1) - 1)

\* r: what the tool's function did; used: the model calls it made
invoke_result(r, used) ==
    IF r.kind = "raised" THEN [exc |-> r.val[1], ret |-> ToolReturn("none", <<>>), used |-> used]
    ELSE [exc |-> "", ret |-> r, used |-> used]

\* tool_map[func_name].invoke(args), line 117: [exc, ret, used]; exc = "" when
\* the call returns ret; used = 1 when the tool called the model
tool_invoke(main_llm, args, reply) ==
    IF ~SchemaOk(args) THEN
        [exc |-> "ValidationError", ret |-> ToolReturn("none", <<>>), used |-> 0]
    ELSE invoke_result(generate_itinerary(main_llm, DestinationOf(args), reply),
                       IF main_llm = None THEN 0 ELSE 1)

\* func_name before the first assignment of line 110
Unbound == "<unbound>"

Step(raised, exc, func_name, out, used) ==
    [raised |-> raised, exc |-> exc, func_name |-> func_name, out |-> out, used |-> used]

Appends(func_name, outcome, used) == Step(FALSE, "", func_name, <<outcome>>, used)

\* lines 117-120 and 123-124: r is what the invocation did
invoked(func_name, args, r) ==
    IF r.exc # "" THEN Appends(func_name, OutcomeError(func_name, <<r.exc>>), r.used)
    ELSE Appends(func_name, OutcomeResult(func_name, args, r.ret), r.used)

\* lines 113-120, with args = json.loads(...) in hand
with_args(main_llm, tc, reply, args) ==
    IF ~args.ok THEN Appends(tc.name, OutcomeInvalidJson(tc.name), 0)
    ELSE IF tc.name \notin tool_map THEN Appends(tc.name, OutcomeNotFound(tc.name), 0)
    ELSE invoked(tc.name, args.val, tool_invoke(main_llm, args.val, reply))

\* the same when the registry was consulted already
with_args_found(main_llm, tc, reply, args) ==
    IF ~args.ok THEN Appends(tc.name, OutcomeInvalidJson(tc.name), 0)
    ELSE invoked(tc.name, args.val, tool_invoke(main_llm, args.val, reply))

\* tool_call_step with the registry consulted before the arguments are parsed
tool_call_step_lookup_first(main_llm, tc, reply, func_name) ==
    IF ~tc.hasName THEN
        IF func_name = Unbound THEN Step(TRUE, "UnboundLocalError", func_name, <<>>, 0)
        ELSE Appends(func_name, OutcomeError(func_name, <<"KeyError">>), 0)
    ELSE IF tc.name \notin tool_map THEN Appends(tc.name, OutcomeNotFound(tc.name), 0)
    ELSE IF tc.argt = "missing" THEN Appends(tc.name, OutcomeError(tc.name, <<"KeyError">>), 0)
    ELSE IF tc.argt = "null" THEN Appends(tc.name, OutcomeError(tc.name, <<"TypeError">>), 0)
    ELSE with_args_found(main_llm, tc, reply, loads(tc.args))

\* One iteration of the loop, lines 108-124, entered with func_name as the
\* previous iterations left it.
tool_call_step(main_llm, tc, reply, func_name) ==
    IF ~tc.hasName THEN
        \* KeyError at line 110; line 124 reads func_name
        IF func_name = Unbound THEN Step(TRUE, "UnboundLocalError", func_name, <<>>, 0)
        ELSE Appends(func_name, OutcomeError(func_name, <<"KeyError">>), 0)
    ELSE IF tc.argt = "missing" THEN Appends(tc.name, OutcomeError(tc.name, <<"KeyError">>), 0)
    ELSE IF tc.argt = "null" THEN Appends(tc.name, OutcomeError(tc.name, <<"TypeError">>), 0)
    ELSE with_args(main_llm, tc, reply, loads(tc.args))

\* What handle_tool_calls does: [raised, exc, results, used].  raised: the call
\* raises exc, and results are the outcomes appended before that; used: the
\* number of model calls the tools made.
Dispatched(raised, exc, results, used) ==
    [raised |-> raised, exc |-> exc, results |-> results, used |-> used]

RECURSIVE tool_call_loop(_, _, _, _, _, _)

\* st: what the iteration on Head(tcs) did
after_step(main_llm, tcs, replies, results, used, st) ==
    IF st.raised THEN Dispatched(TRUE, st.exc, results, used)
    ELSE tool_call_loop(main_llm, Tail(tcs),
                        IF st.used = 1 /\ replies # <<>> THEN Tail(replies) ELSE replies,
                        st.func_name, results \o st.out, used + st.used)

tool_call_loop(main_llm, tcs, replies, func_name, results, used) ==
    IF tcs = <<>> THEN Dispatched(FALSE, "", results, used)
    ELSE after_step(main_llm, tcs, replies, results, used,
                    tool_call_step(main_llm, Head(tcs), NextReply(replies), func_name))

\* handle_tool_calls(response), kw = response.additional_kwargs.get("tool_calls")
\* (<<>> when it is missing, None or empty)
handle_tool_calls(main_llm, kw, replies) ==
    IF kw = <<>> THEN Dispatched(FALSE, "", <<OutcomeNoToolCalls>>, 0)
    ELSE tool_call_loop(main_llm, kw, replies, Unbound, <<>>, 0)

\* the number of model calls the tools make for kw
Invocations(main_llm, kw) == handle_tool_calls(main_llm, kw, <<>>).used

ARGS_OK == <<"{", "\"", "destination", "\"", ":", " ", "\"", "Pokhara", "\"", "}">>
ArgTexts == { ARGS_OK, <<"{", "}">>, <<"{">> }
Names == {TOOL_NAME, "book_flight"}

Entries == {TC(FALSE, "", "missing", <<>>)}
           \cup {TC(TRUE, n, t, <<>>) : n \in Names, t \in {"missing", "null"}}
           \cup {TC(TRUE, n, "str", a) : n \in Names, a \in ArgTexts}

RECURSIVE SeqsUpTo(_, _)
SeqsUpTo(S, n) == IF n = 0 THEN {<<>>}
                  ELSE SeqsUpTo(S, n - 1) \cup {q \o <<x>> : q \in SeqsUpTo(S, n - 1), x \in S}

SeqsOf(S, n) == {q \in SeqsUpTo(S, n) : Len(q) = n}

Batches == SeqsUpTo(Entries, MaxBatch)

----------------------------------------------------------------------------
\* The handler of POST /generate-itinerary

\* A response [code, key, msg, result]: the JSON body is {key: msg}, or
\* {"itinerary": result} with result what the tool returned.
NoResult == ToolReturn("none", <<>>)
Resp(code, key, msg) == [code |-> code, key |-> key, msg |-> msg, result |-> NoResult]
RespItinerary(tool_result) ==
    [code |-> 200, key |-> "itinerary", msg |-> <<>>, result |-> tool_result]
\* the view function ends without a return statement
NoResponse == [code |-> 0, key |-> "none", msg |-> <<>>, result |-> NoResult]

UNAVAILABLE_MSG ==
    <<"Service temporarily unavailable. Please configure GROQ_API_KEY environment variable.">>
NO_QUERY_MSG == <<"No query provided">>
FORMAT_MSG == <<"Unexpected response format">>

\* The request body as request.get_json() sees it:
\*   k = "nojson": get_json() raises or returns None (no body, a body that is
\*       not JSON, another content type); k = "null", "array": the JSON
\*       document is null or a list; k = "object": a JSON object, with
\*   q = [t, s]: the member "query" is absent, null, a number, or the str s.
Body(k, t, s) == [k |-> k, q |-> [t |-> t, s |-> s]]

\* What main_llm.bind_tools(tools).invoke(...) does:
\*   k = "raise_lc": raises a LangChainException; k = "raise": raises another
\*   exception; k = "other": returns something that is no AIMessage;
\*   k = "ai": returns an AIMessage with content, tool_calls non-empty or
\*   not, and kw = additional_kwargs.get("tool_calls").
Outer(k, content, tool_calls, kw) ==
    [k |-> k, content |-> content, tool_calls |-> tool_calls, kw |-> kw]

\* What a run of the view function leaves: [exc, resp, trace, tool_results].
\* trace lists the calls made; tool_results is the local variable of line 165
\* (<<>> while unassigned).
Ran(exc, resp, trace, tool_results) ==
    [exc |-> exc, resp |-> resp, trace |-> trace, tool_results |-> tool_results]

\* first_outcome that prefers a result to an error that comes before it
RECURSIVE first_with(_, _)
first_with(tool_results, key) ==
    IF tool_results = <<>> THEN <<>>
    ELSE IF key \in DOMAIN Head(tool_results) THEN <<Head(tool_results)>>
    ELSE first_with(Tail(tool_results), key)

first_outcome_results_first(tool_results) ==
    IF first_with(tool_results, "result") # <<>>
    THEN RespItinerary(first_with(tool_results, "result")[1].result)
    ELSE IF first_with(tool_results, "error") # <<>>
    THEN Resp(400, "error", first_with(tool_results, "error")[1].error)
    ELSE NoResponse

\* the loop of lines 166-170 over tool_results
RECURSIVE first_outcome(_)
first_outcome(tool_results) ==
    IF tool_results = <<>> THEN NoResponse
    ELSE LET result == Head(tool_results) IN
         IF "result" \in DOMAIN result THEN RespItinerary(result.result)
         ELSE IF "error" \in DOMAIN result THEN Resp(400, "error", result.error)
         ELSE first_outcome(Tail(tool_results))

RECURSIVE Repeat(_, _)
Repeat(e, n) == IF n = 0 THEN <<>> ELSE <<e>> \o Repeat(e, n - 1)

\* lines 165-170: d is what handle_tool_calls did
after_dispatch(trace, d) ==
    IF d.raised
    THEN Ran(d.exc, NoResponse, trace \o <<"handle_tool_calls">> \o Repeat("tool.llm.invoke", d.used), <<>>)
    ELSE Ran("", first_outcome(d.results),
             trace \o <<"handle_tool_calls">> \o Repeat("tool.llm.invoke", d.used), d.results)

\* lines 162-176, with the response of the model in hand
api_response(main_llm, outer, replies, trace) ==
    IF outer.k = "other" THEN Ran("", Resp(500, "error", FORMAT_MSG), trace, <<>>)
    ELSE IF ~outer.tool_calls THEN Ran("", Resp(200, "response", outer.content), trace, <<>>)
    ELSE after_dispatch(trace, handle_tool_calls(main_llm, outer.kw, replies))

\* lines 144-176: the try block after the check of the handle.  Without a
\* JSON object get_json() raises or returns None and data.get raises; either
\* way an exception that is no LangChainException leaves the block.
api_request(main_llm, body, outer, replies) ==
    IF body.k # "object" THEN Ran("AttributeError", NoResponse, <<"get_json">>, <<>>)
    ELSE IF body.q.t \in {"null", "num"} THEN Ran("AttributeError", NoResponse, <<"get_json">>, <<>>)
    ELSE IF strip(IF body.q.t = "absent" THEN <<>> ELSE body.q.s) = <<>> THEN
        Ran("", Resp(400, "error", NO_QUERY_MSG), <<"get_json">>, <<>>)
    ELSE IF main_llm = None THEN Ran("AttributeError", NoResponse, <<"get_json">>, <<>>)
    ELSE IF outer.k = "raise_lc" THEN
        Ran("LangChainException", NoResponse, <<"get_json", "llm.invoke">>, <<>>)
    ELSE IF outer.k = "raise" THEN
        Ran("APIError", NoResponse, <<"get_json", "llm.invoke">>, <<>>)
    ELSE api_response(main_llm, outer, replies, <<"get_json", "llm.invoke">>)

\* api_try without the check of the handle
api_try_unchecked(main_llm, body, outer, replies) ==
    api_request(main_llm, body, outer, replies)

\* lines 133-176: the try block
api_try(main_llm, body, outer, replies) ==
    IF main_llm = None THEN Ran("", Resp(503, "error", UNAVAILABLE_MSG), <<>>, <<>>)
    ELSE api_request(main_llm, body, outer, replies)

\* the except clauses of lines 178-181: r is what the try block did
api_except(r) ==
    IF r.exc = "" THEN r
    ELSE IF r.exc = "LangChainException" THEN
        Ran("", Resp(500, "error", <<"System error: ", r.exc>>), r.trace, r.tool_results)
    ELSE Ran("", Resp(500, "error", <<"Unexpected error: ", r.exc>>), r.trace, r.tool_results)

\* generate_itinerary_api(): [exc, resp, trace, tool_results] with exc = ""
\* always; resp is NoResponse when the function returns None
generate_itinerary_api(main_llm, body, outer, replies) ==
    api_except(api_try(main_llm, body, outer, replies))

Queries == { <<>>, <<" ">>, <<"\n", " ">>, <<"trip">>, <<" ", "trip", "\n">> }

Bodies == { Body("nojson", "absent", <<>>), Body("null", "absent", <<>>),
            Body("array", "absent", <<>>), Body("object", "absent", <<>>),
            Body("object", "null", <<>>), Body("object", "num", <<>>) }
          \cup { Body("object", "str", s) : s \in Queries }

\* whether the handler reaches the model call with this body
AsksModel(llm, body) ==
    /\ llm # None
    /\ body.k = "object" /\ body.q.t = "str" /\ strip(body.q.s) # <<>>

Contents == { <<>>, <<"Namaste">> }

\* kw is read only when tool_calls is non-empty, content only when it is empty.
Outers == { Outer("raise_lc", <<>>, FALSE, <<>>), Outer("raise", <<>>, FALSE, <<>>),
            Outer("other", <<>>, FALSE, <<>>) }
          \cup { Outer("ai", c, FALSE, <<>>) : c \in Contents }
          \cup { Outer("ai", <<>>, TRUE, kw) : kw \in Batches }

\* the number of model calls the tools make in one request
ToolCalls(llm, body, outer) ==
    IF AsksModel(llm, body) /\ outer.k = "ai" /\ outer.tool_calls
    THEN Invocations(llm, outer.kw) ELSE 0

----------------------------------------------------------------------------
VARIABLES main_llm, call, ret

vars == <<main_llm, call, ret>>

NoCall == [op |-> "none"]

Init ==
    /\ \E api_key \in ApiKeys, ctor_raises \in BOOLEAN :
          main_llm = init_main_llm(api_key, ctor_raises)
    /\ call = NoCall
    /\ ret = NoCall

\* a direct call of the tool
CallTool ==
    /\ call = NoCall
    /\ \E destination \in Destinations, reply \in Replies :
          /\ call' = [op |-> "tool", destination |-> destination, reply |-> reply,
                       sent |-> IF main_llm = None THEN <<>> ELSE prompt(destination)]
          /\ ret' = generate_itinerary(main_llm, destination, reply)
    /\ UNCHANGED main_llm

\* a direct call of the dispatcher
CallDispatch ==
    /\ call = NoCall
    /\ \E kw \in Batches :
          \E replies \in SeqsOf(DispatchReplies, Invocations(main_llm, kw)) :
              /\ call' = [op |-> "dispatch", kw |-> kw, replies |-> replies]
              /\ ret' = handle_tool_calls(main_llm, kw, replies)
    /\ UNCHANGED main_llm

\* one request to the endpoint
Request ==
    /\ call = NoCall
    /\ \E body \in Bodies :
          \E outer \in (IF AsksModel(main_llm, body) THEN Outers ELSE {Outer("other", <<>>, FALSE, <<>>)}) :
              \E replies \in SeqsOf(DispatchReplies, ToolCalls(main_llm, body, outer)) :
                  /\ call' = [op |-> "api", body |-> body, outer |-> outer, replies |-> replies]
                  /\ ret' = generate_itinerary_api(main_llm, body, outer, replies)
    /\ UNCHANGED main_llm

Next == CallTool \/ CallDispatch \/ Request

Spec == Init /\ [][Next]_vars

----------------------------------------------------------------------------
\* Properties

IsApi == call.op = "api"
IsTool == call.op = "tool"
IsDispatch == call.op = "dispatch"

Range(q) == {q[i] : i \in 1..Len(q)}
Carries(o, key) == key \in DOMAIN o
Min(S) == CHOOSE x \in S : \A y \in S : x <= y

\* the request went down the capability-invocation path and dispatch returned
OnDispatchPath == IsApi /\ "handle_tool_calls" \in Range(ret.trace) /\ ret.tool_results # <<>>

\* the positions of the outcomes that carry key
With(rs, key) == {i \in 1..Len(rs) : Carries(rs[i], key)}
Decisive(rs) == With(rs, "result") \cup With(rs, "error")

\* C1: with main_llm None every request is answered 503 with the fixed
\* configuration message, before the body is parsed, the query validated or
\* the model called.
C1_Unconfigured503 ==
    (IsApi /\ main_llm = None) =>
        /\ ret.resp = Resp(503, "error", UNAVAILABLE_MSG)
        /\ ret.trace = <<>>

C1_Witness ==
    /\ IsApi /\ main_llm = None
    /\ call.body = Body("object", "str", <<"trip">>)
    /\ ret.resp.code = 503

\* the request carries no query, or one that is empty or whitespace-only
QueryBlank(body) ==
    \/ body.k # "object"
    \/ body.q.t \in {"absent", "null"}
    \/ body.q.t = "str" /\ strip(body.q.s) = <<>>

\* C2: with the handle configured, every request whose query is absent, empty
\* or whitespace-only is answered 400 {"error": "No query provided"} and the
\* model is never called.

C2_BlankQuery400 ==
    (IsApi /\ main_llm # None /\ QueryBlank(call.body)) =>
        /\ ret.resp = Resp(400, "error", NO_QUERY_MSG)
        /\ "llm.invoke" \notin Range(ret.trace)

\* C3: when the outcome the handler selects holds a failure the tool reported
\* as its {error: message} payload, the response is 400 {error: message},
\* never a 200 itinerary.
C3_ToolErrorIs400 ==
    OnDispatchPath =>
        LET rs == ret.tool_results IN
        (/\ Decisive(rs) # {}
         /\ Carries(rs[Min(Decisive(rs))], "result")
         /\ rs[Min(Decisive(rs))].result.kind = "error")
        => ret.resp = Resp(400, "error", rs[Min(Decisive(rs))].result.val)

\* C4 as stated: if any outcome carries a result the response is 200 with the
\* first result, even after outcomes that carry an error; 400 only if no
\* outcome carries a result and one carries an error.
C4_ResultBeatsEarlierError ==
    OnDispatchPath =>
        LET rs == ret.tool_results IN
        /\ With(rs, "result") # {} => ret.resp = RespItinerary(rs[Min(With(rs, "result"))].result)
        /\ ret.resp.code = 400 => (With(rs, "result") = {} /\ With(rs, "error") # {})

\* C4 amended: the response is decided by the first outcome that carries a
\* result or an error: 200 {itinerary: r} if it carries the result r, 400
\* {error: m} if it carries the error m, whatever the later outcomes carry.
C4_FirstDecisiveOutcome ==
    OnDispatchPath =>
        LET rs == ret.tool_results IN
        /\ Decisive(rs) # {} =>
              LET o == rs[Min(Decisive(rs))] IN
              IF Carries(o, "result") THEN ret.resp = RespItinerary(o.result)
              ELSE ret.resp = Resp(400, "error", o.error)
        /\ ret.resp.code = 400 =>
              (Decisive(rs) # {} /\ Carries(rs[Min(Decisive(rs))], "error"))

C4_Witness ==
    /\ OnDispatchPath
    /\ With(ret.tool_results, "result") # {}
    /\ With(ret.tool_results, "error") # {}
    /\ Min(With(ret.tool_results, "error")) < Min(With(ret.tool_results, "result"))
    /\ ret.resp.code = 400

\* C5: generate_itinerary never raises: whatever the destination, the reply of
\* the model and the handle, it returns the parsed JSON value or an
\* {error: message} object, and a value only for a text the model returned.
C5_ToolAlwaysReturns ==
    IsTool =>
        /\ ret.kind \in {"value", "error"}
        /\ ret.kind = "value" => (main_llm # None /\ call.reply.k = "text")
        /\ (main_llm = None \/ call.reply.k # "text") => ret.kind = "error"

C5_Witness ==
    /\ IsTool /\ main_llm # None
    /\ call.reply.k = "raise"
    /\ ret = ToolReturn("error", <<"LangChainException">>)

\* C6: for a non-empty batch dispatch does not raise and returns one outcome
\* per invocation, in order, each naming that invocation's own capability.
C6_FaultIsolation ==
    (IsDispatch /\ call.kw # <<>>) =>
        /\ ~ret.raised
        /\ Len(ret.results) = Len(call.kw)
        /\ \A i \in 1..Len(ret.results) :
              /\ Carries(ret.results[i], "tool")
              /\ IF call.kw[i].hasName THEN ret.results[i].tool = call.kw[i].name
                 ELSE ret.results[i].tool \notin Names

\* the invocations of the batch that name an unregistered capability
Unregistered(kw) == {i \in 1..Len(kw) : kw[i].hasName /\ kw[i].name \notin tool_map}

\* C7 as stated: an invocation of an unregistered name gets the outcome
\* not_found for that name whatever its arguments string is, valid JSON or
\* not, and does not make dispatch raise.
C7_NotFoundWhateverArgs ==
    IsDispatch =>
        \A i \in Unregistered(call.kw) :
            call.kw[i].argt = "str" =>
                /\ ret.raised => i # Len(ret.results) + 1
                /\ i <= Len(ret.results) => ret.results[i] = OutcomeNotFound(call.kw[i].name)

\* C7 amended: an invocation of an unregistered name gets not_found for that
\* name when its arguments are a string of valid JSON; invalid_json when they
\* are a string that is not valid JSON, and an error outcome when they are
\* missing or no string, because the arguments are parsed before the registry
\* is consulted.  In none of these cases does the invocation make dispatch
\* raise.
C7_NotFoundAfterParse ==
    IsDispatch =>
        \A i \in Unregistered(call.kw) :
            /\ ret.raised => i # Len(ret.results) + 1
            /\ i <= Len(ret.results) =>
                  LET tc == call.kw[i] IN
                  IF tc.argt # "str" THEN
                      Carries(ret.results[i], "error") /\ ret.results[i].tool = tc.name
                  ELSE IF loads(tc.args).ok THEN ret.results[i] = OutcomeNotFound(tc.name)
                  ELSE ret.results[i] = OutcomeInvalidJson(tc.name)

C7_Witness ==
    /\ IsDispatch /\ ~ret.raised
    /\ \E i \in Unregistered(call.kw) :
          /\ call.kw[i].argt = "str" /\ ~loads(call.kw[i].args).ok
          /\ ret.results[i] = OutcomeInvalidJson(call.kw[i].name)
    /\ \E i \in Unregistered(call.kw) :
          /\ call.kw[i].argt = "str" /\ loads(call.kw[i].args).ok
          /\ ret.results[i] = OutcomeNotFound(call.kw[i].name)

\* the tool got a text from the model
GotText == IsTool /\ main_llm # None /\ call.reply.k = "text"

\* C8 as stated: a text that is empty once the artifacts are removed and the
\* rest trimmed is reported as the empty response, not as a parse error.
C8_EmptyAfterCleanup ==
    (GotText /\ json_str_of(call.reply.content) = <<>>) =>
        ret = ToolReturn("error", EMPTY_MSG)

\* C8 amended: a text that is empty or whitespace-only before any artifact is
\* removed is reported as "Empty response received from model."; a text that
\* is not, and is empty once the artifacts are removed and the rest trimmed,
\* is reported as the JSON parse error.
C8_EmptyBeforeCleanup ==
    GotText =>
        /\ strip(call.reply.content) = <<>> => ret = ToolReturn("error", EMPTY_MSG)
        /\ (strip(call.reply.content) # <<>> /\ json_str_of(call.reply.content) = <<>>)
              => ret = ToolReturn("error", <<"JSONDecodeError">>)

C8_Witness ==
    /\ GotText
    /\ call.reply.content = FENCE_JSON \o FENCE
    /\ ret = ToolReturn("error", <<"JSONDecodeError">>)

\* the outcomes dispatch produced in this state
Outcomes ==
    IF IsDispatch THEN Range(ret.results)
    ELSE IF IsApi THEN Range(ret.tool_results)
    ELSE {}

\* C9: every outcome of dispatch carries exactly one of result, error, status.
C9_ExactlyOneKey ==
    \A o \in Outcomes : Cardinality(DOMAIN o \cap {"result", "error", "status"}) = 1

C9_Witness ==
    /\ IsDispatch
    /\ \E o \in Outcomes : Carries(o, "result")
    /\ \E o \in Outcomes : Carries(o, "error") \/ Carries(o, "status")

\* C10: every request ends with one of the documented responses; the handler
\* never ends without one.
C10_AlwaysResponds ==
    IsApi =>
        /\ ret.resp # NoResponse
        /\ ret.resp.code \in {200, 400, 500, 503}

====
